---- MODULE Spec2Model ----
(***************************************************************************)
(* Model of the service-worker caching layer of finance-ai.  The source    *)
(* holds six variants of the same worker script:                           *)
(*   financeai-v3      src/static/sw.js      lines   1-121                 *)
(*   fa-v1.0.0         src/static/sw.js      lines 123-247                 *)
(*   financeai-v2      src/static/sw.js      lines 249-341                 *)
(*   v2.0.1            src/unnamed/part_000                                *)
(*   v1.0.0            src/unnamed/part_001                                *)
(*   finance-ai-v1.0.0 src/unnamed/part_002                                *)
(* One run of Spec is one generation of one variant: the worker is         *)
(* installed, activated and then serves fetch events.  The browser's       *)
(* CacheStorage / Cache / fetch are modelled by what the Service Worker    *)
(* and Fetch standards say they do.  The other specifications put the same *)
(* worker in other surroundings: SpecReinstall installs the generation     *)
(* again, SpecRace lets a newer generation install and take over while the *)
(* worker serves, SpecStoreDown serves with the storage unavailable and    *)
(* SpecClassify hands every kind of request to the fetch listener.         *)
(***************************************************************************)
EXTENDS Integers, Sequences, FiniteSets, TLC

VARIABLES
    variant,      \* which worker script runs (fixed for the run)
    phase,        \* worker life cycle: parsed, installing, installed, activating, activated, redundant
    skipWaiting,  \* self.skipWaiting() has been called
    claimed,      \* self.clients.claim() has been called
    cacheKeys,    \* caches.keys(): names of the existing stores, in creation order
    store,        \* store name -> url -> stored response snapshot (None: no entry)
    precache,     \* install: core-set url -> Pending | Failed | the response fetched
    toDelete,     \* activate: stores of the keys() snapshot still to be deleted
    originVer,    \* version of the content the origin serves now
    reqs,         \* the fetch events handled so far, one record each
    puts,         \* cache.put calls issued and not yet completed
    prev,         \* what the previous install run of this generation left
    newer         \* the generation that supersedes this one: none, installed, active

vars == <<variant, phase, skipWaiting, claimed, cacheKeys, store, precache,
          toDelete, originVer, reqs, puts, prev, newer>>

----------------------------------------------------------------------------
(* Bounds of the model.                                                    *)

\* number of stores left behind by superseded generations
MaxOldGen == 2
\* number of content versions the origin goes through
MaxVer == 2
\* number of fetch events of one run
MaxRequests == 2
\* number of install runs of the generation
MaxInstalls == 2

----------------------------------------------------------------------------
(* The variants, named by their generation tag.                            *)

V3 == "financeai-v3"
FA == "fa-v1.0.0"
V2 == "financeai-v2"
P0 == "v2.0.1"
P1 == "v1.0.0"
P2 == "finance-ai-v1.0.0"

Variants == {V3, FA, V2, P0, P1, P2}

(* Store names.  The current generation's names keep the names of the      *)
(* constants that hold them; the stale ones are other generations' stores. *)
CACHE_NAME == "CACHE_NAME"
STATIC_CACHE == "STATIC_CACHE"
RUNTIME_CACHE == "RUNTIME_CACHE"
HTML_CACHE == "HTML_CACHE"

StaleNames == <<"gen-A", "gen-B", "gen-C", "gen-D">>

StaleStores == {StaleNames[i] : i \in 1..MaxOldGen}

\* the store of the generation that supersedes this one
NextStore == "gen-next"

StoreNames ==
    {CACHE_NAME, STATIC_CACHE, RUNTIME_CACHE, HTML_CACHE, NextStore} \cup StaleStores

(* Urls.  Same-origin urls are written as their path.                      *)
Root == "/"
OfflineHtml == "/offline.html"
Page == "/page"
Login == "/login"
Icon == "/static/icons/icon-192.png"
AppCss == "/static/app.css"
Cdn == "https://cdn.example/lib.js"

Urls == {Root, OfflineHtml, Page, Login, Icon, AppCss, Cdn}

(* Responses, store snapshots and the other values a handler can hand to   *)
(* respondWith, all records of one shape.                                  *)
Val(kind, status, body) == [kind |-> kind, status |-> status, body |-> body]

None == Val("none", 0, "")            \* undefined from a match: no entry
Null == Val("null", 0, "")            \* the promise resolved to null
Undefined == Val("undefined", 0, "")  \* the promise resolved to undefined
Rejected == Val("rejected", 0, "")    \* the promise rejected
Pending == Val("pending", 0, "")      \* not settled yet
Failed == Val("failed", 0, "")        \* fetch() rejected: the origin is unreachable
Passthrough == Val("passthrough", 0, "")  \* respondWith was not called
ResponseError == Val("neterror", 0, "")   \* Response.error()

Content == <<"content-v1", "content-v2", "content-v3", "content-v4">>

OriginOk(ver) == Val("origin", 200, Content[ver])
OriginError == Val("origin", 500, "server error")
StaleEntry == Val("origin", 200, "stale")

\* new Response(body, {status})
Response(body, status) == Val("synth", status, body)

IsResponse(x) == x.kind \in {"origin", "synth", "neterror"}

\* response.ok
Ok(x) == x.kind \in {"origin", "synth"} /\ x.status >= 200 /\ x.status <= 299

\* a || b
Or(a, b) == IF a.kind \in {"none", "null", "undefined"} THEN b ELSE a

----------------------------------------------------------------------------
(* CacheStorage and Cache.                                                 *)

Exists(name) == \E i \in 1..Len(cacheKeys) : cacheKeys[i] = name

EmptyStore == [u \in Urls |-> None]

\* caches.open(name): the store is created when it does not exist
OpenAll(keys, names) ==
    LET RECURSIVE Go(_, _)
        Go(ks, i) ==
            IF i > Len(names) THEN ks
            ELSE IF \E j \in 1..Len(ks) : ks[j] = names[i]
                 THEN Go(ks, i + 1)
                 ELSE Go(Append(ks, names[i]), i + 1)
    IN Go(keys, 1)

\* cache.match(request): only a GET request matches an entry
cache_match(name, request) ==
    IF request.method = "GET" THEN store[name][request.url] ELSE None

\* cache.match(url)
cache_match_url(name, url) == store[name][url]

\* caches.match(url): the first store, in creation order, holding an entry
caches_match_url(url) ==
    LET RECURSIVE Go(_)
        Go(i) ==
            IF i > Len(cacheKeys) THEN None
            ELSE IF store[cacheKeys[i]][url] # None THEN store[cacheKeys[i]][url]
            ELSE Go(i + 1)
    IN Go(1)

\* caches.match(request)
caches_match(request) ==
    IF request.method = "GET" THEN caches_match_url(request.url) ELSE None

----------------------------------------------------------------------------
(* The origin.                                                             *)

\* what a fetch finds at the origin: its content as the last fetch saw it
\* ("ok"), content redeployed since then ("new"), a non-2xx answer ("error")
\* or nothing at all, the origin being unreachable ("fail")
Outcomes == {"ok", "new", "error", "fail"}

InstallOutcomes == {"ok", "error", "fail"}

\* the version of the content the fetch reads
VerAfter(o) == IF o = "new" THEN originVer + 1 ELSE originVer

\* what fetch() settles with: a 2xx response carrying the origin's content,
\* a non-2xx response, or a rejection
FetchResult(o) ==
    CASE o \in {"ok", "new"} -> OriginOk(VerAfter(o))
      [] o = "error" -> OriginError
      [] OTHER -> Failed

----------------------------------------------------------------------------
(* Install.  The core sets are cut to the urls of the model: the index,   *)
(* one member under /static/ (an icon) and, in part_002, the offline page. *)
(* Their other members (the manifest, the chart bundle, more icons) are    *)
(* fetched and stored exactly as the icon is.                              *)

\* mutant: the index is not a member of the core set
v3_CORE_ASSETS_noRoot == {Icon}

v3_CORE_ASSETS == {Root, Icon}
fa_PRECACHE == {Root, Icon}
v2_CORE_ASSETS == {Root, Icon}
p0_PRECACHE == {Root, Icon}
p1_PRECACHE_URLS == {Root, Icon}
p2_CORE_ASSETS == {Root, OfflineHtml, Icon}

CoreSet(v) ==
    CASE v = V3 -> v3_CORE_ASSETS
      [] v = FA -> fa_PRECACHE
      [] v = V2 -> v2_CORE_ASSETS
      [] v = P0 -> p0_PRECACHE
      [] v = P1 -> p1_PRECACHE_URLS
      [] v = P2 -> p2_CORE_ASSETS

\* mutant: each install run opens a store of its own
InstallStore_freshPerRun(v) ==
    IF prev.n > 0 THEN NextStore
    ELSE IF v \in {V3, V2, P2} THEN CACHE_NAME ELSE STATIC_CACHE

\* the store the install listener opens
InstallStore(v) == IF v \in {V3, V2, P2} THEN CACHE_NAME ELSE STATIC_CACHE

\* self.skipWaiting() is called in the listener itself, outside waitUntil
SkipWaitingEarly(v) == v \in {V2, P1}

\* the listener has a "message" handler for SKIP_WAITING
HasMessageListener(v) == v \in {FA, P1, P2}

\* cache.addAll(urls): every response must be ok, else it rejects and
\* nothing is stored
addAll(st, name, urls, got) ==
    IF \A u \in urls : Ok(got[u])
    THEN [ok |-> TRUE,
          store |-> [st EXCEPT ![name] =
                        [u \in Urls |-> IF u \in urls THEN got[u] ELSE st[name][u]]]]
    ELSE [ok |-> FALSE, store |-> st]

\* part_000: one member of the Promise.all of the install listener:
\* try { res = await fetch(req); if (res.ok) await cache.put(req, res.clone()) } catch {}
p0_precacheMember(st, u, res) ==
    IF Ok(res) THEN [st EXCEPT ![STATIC_CACHE][u] = res] ELSE st

\* what an install run left behind, as the next run of the generation finds it
NoPrev == [n |-> 0, got |-> <<>>, keys |-> <<>>, store |-> <<>>]

InstallStart ==
    /\ phase = "parsed"
    /\ phase' = "installing"
    /\ cacheKeys' = OpenAll(cacheKeys, <<InstallStore(variant)>>)
    /\ precache' = [u \in Urls |-> IF u \in CoreSet(variant) THEN Pending ELSE None]
    /\ skipWaiting' = (skipWaiting \/ SkipWaitingEarly(variant))
    /\ UNCHANGED <<prev, newer, variant, claimed, store, toDelete, originVer, reqs, puts>>

\* the fetch of one core-set member settles
PrecacheSettle(u, o) ==
    /\ phase = "installing"
    /\ precache[u] = Pending
    /\ precache' = [precache EXCEPT ![u] = FetchResult(o)]
    /\ store' = IF variant = P0 THEN p0_precacheMember(store, u, FetchResult(o))
                ELSE store
    /\ UNCHANGED <<prev, newer, variant, phase, skipWaiting, claimed, cacheKeys, toDelete,
                   originVer, reqs, puts>>

\* mutant: the promise handed to waitUntil does not wait for the fetches
InstallDone_noJoin ==
    /\ phase = "installing"
    /\ IF variant = P0
       THEN /\ phase' = "installed"
            /\ skipWaiting' = TRUE
            /\ store' = store
       ELSE LET r == addAll(store, InstallStore(variant), CoreSet(variant), precache)
            IN /\ phase' = IF r.ok THEN "installed" ELSE "redundant"
               /\ skipWaiting' = (skipWaiting \/ r.ok)
               /\ store' = r.store
    /\ UNCHANGED <<prev, newer, variant, claimed, cacheKeys, precache, toDelete,
                   originVer, reqs, puts>>

\* the promise handed to waitUntil settles.  Promise.all over members that
\* catch their own errors (part_000) settles when every member has; addAll
\* waits for all its fetches but rejects as soon as one of them fails or
\* answers non-2xx, the others still pending (they are aborted).
InstallDone ==
    /\ phase = "installing"
    /\ \/ \A u \in CoreSet(variant) : precache[u] # Pending
       \/ /\ variant # P0
          /\ \E u \in CoreSet(variant) : precache[u] # Pending /\ ~Ok(precache[u])
    /\ IF variant = P0
       THEN /\ phase' = "installed"
            /\ skipWaiting' = TRUE
            /\ store' = store
       ELSE LET r == addAll(store, InstallStore(variant), CoreSet(variant), precache)
            IN /\ phase' = IF r.ok THEN "installed" ELSE "redundant"
               /\ skipWaiting' = (skipWaiting \/ r.ok)
               /\ store' = r.store
    /\ UNCHANGED <<prev, newer, variant, claimed, cacheKeys, precache, toDelete, originVer,
                   reqs, puts>>

\* message listener: { type: "SKIP_WAITING" }
Message ==
    /\ HasMessageListener(variant)
    /\ phase \in {"installing", "installed"}
    /\ ~skipWaiting
    /\ skipWaiting' = TRUE
    /\ UNCHANGED <<prev, newer, variant, phase, claimed, cacheKeys, store, precache, toDelete,
                   originVer, reqs, puts>>

----------------------------------------------------------------------------
(* Activate.                                                               *)

\* mutant: the filter also keeps the stores of one other generation
CurrentStores_keepsStale(v) ==
    {StaleNames[1]} \cup
    (CASE v \in {V3, V2, P2} -> {CACHE_NAME}
       [] v = FA -> {STATIC_CACHE, HTML_CACHE}
       [] v \in {P0, P1} -> {STATIC_CACHE, RUNTIME_CACHE})

\* the names the activate listener's filter keeps
CurrentStores(v) ==
    CASE v \in {V3, V2, P2} -> {CACHE_NAME}
      [] v = FA -> {STATIC_CACHE, HTML_CACHE}
      [] v \in {P0, P1} -> {STATIC_CACHE, RUNTIME_CACHE}

\* clients.claim() is called in the listener itself, outside waitUntil
ClaimEarly(v) == v = V2

\* caches.delete(name)
DeleteKey(keys, name) == SelectSeq(keys, LAMBDA k : k # name)

\* const keys = await caches.keys(); the deletions are issued for the snapshot
ActivateStart ==
    /\ phase = "installed"
    /\ phase' = "activating"
    /\ toDelete' = {cacheKeys[i] : i \in 1..Len(cacheKeys)} \ CurrentStores(variant)
    /\ claimed' = ClaimEarly(variant)
    /\ precache' = [u \in Urls |-> None]
    /\ UNCHANGED <<prev, newer, variant, skipWaiting, cacheKeys, store, originVer, reqs, puts>>

\* one caches.delete(k) of the Promise.all completes
ActivateDelete(k) ==
    /\ phase = "activating"
    /\ k \in toDelete
    /\ toDelete' = toDelete \ {k}
    /\ cacheKeys' = DeleteKey(cacheKeys, k)
    /\ store' = [store EXCEPT ![k] = EmptyStore]
    /\ UNCHANGED <<prev, newer, variant, phase, skipWaiting, claimed, precache, originVer,
                   reqs, puts>>

\* Promise.all has resolved: clients.claim(), and the waitUntil promise settles
ActivateDone ==
    /\ phase = "activating"
    /\ toDelete = {}
    /\ claimed' = TRUE
    /\ phase' = "activated"
    /\ UNCHANGED <<prev, newer, variant, skipWaiting, cacheKeys, store, precache, toDelete,
                   originVer, reqs, puts>>

----------------------------------------------------------------------------
(* Requests: method, url, mode and whether the Accept header names         *)
(* text/html.                                                              *)

Req(method, url, mode, html) ==
    [method |-> method, url |-> url, mode |-> mode, html |-> html]

Nav(url) == Req("GET", url, "navigate", TRUE)
Sub(url) == Req("GET", url, "cors", FALSE)

Requests ==
    { Nav(Root), Nav(Page),
      Sub(Page), Req("GET", Page, "cors", TRUE), Sub(Login),
      Sub(Icon), Sub(AppCss),
      Sub(Cdn),
      Req("POST", AppCss, "cors", FALSE) }

\* url.origin === self.location.origin
SameOrigin(request) == request.url # Cdn

\* url.pathname.startsWith("/static/")
StartsWithStatic(url) == url \in {Icon, AppCss}

\* url.pathname.startsWith("/static/icons/")
StartsWithIcons(url) == url = Icon

\* sw.js 169-172
isNavigationRequest(request) ==
    request.mode = "navigate" \/ (request.method = "GET" /\ request.html)

\* sw.js 174-186: the /static/ prefix or one of the extensions
isStaticAsset(url) == StartsWithStatic(url) \/ url = Cdn

\* part_002 40-54: the prefixes of the dynamic endpoints
isApiRequest(url) == url = Login

\* the variants that read the Accept header (sw.js 171; part_002 98)
ReadsAccept(v) == v \in {FA, P2}

\* The requests a variant is run with: where no code reads the Accept
\* header, or tests the prefixes of the dynamic endpoints, the requests that
\* differ from GET /page in that alone are handled exactly as it is.
RequestsOf(v) ==
    {r \in Requests : /\ (r.html /\ r.mode # "navigate") => ReadsAccept(v)
                      /\ r.url = Login => v = P2}

(* The fetch listeners: the strategy each variant hands the request to.    *)
(* "passthrough" is a return without respondWith.                          *)

v3_fetch(request) ==
    IF request.method # "GET" THEN "passthrough"
    ELSE IF ~SameOrigin(request) THEN "crossOrigin"
    ELSE IF request.mode = "navigate" \/ request.url = Root THEN "networkFirstHtml"
    ELSE IF StartsWithStatic(request.url) THEN "staleWhileRevalidate"
    ELSE "networkFirst"

fa_fetch(request) ==
    IF ~SameOrigin(request) THEN "passthrough"
    ELSE IF isNavigationRequest(request) THEN "networkFirst"
    ELSE IF isStaticAsset(request.url) THEN "staleWhileRevalidate"
    ELSE "passthrough"

v2_fetch(request) ==
    IF request.method # "GET" THEN "passthrough"
    ELSE IF ~SameOrigin(request) THEN "crossOrigin"
    ELSE IF request.url = Root \/ request.mode = "navigate" THEN "networkFirst"
    ELSE IF StartsWithStatic(request.url) THEN "staleWhileRevalidate"
    ELSE "networkFirst"

p0_fetch(request) ==
    IF request.method # "GET" THEN "passthrough"
    ELSE IF ~SameOrigin(request) THEN "passthrough"
    ELSE IF request.mode = "navigate" THEN "networkFirst"
    ELSE IF StartsWithIcons(request.url) THEN "cacheFirst"
    ELSE IF StartsWithStatic(request.url) THEN "staleWhileRevalidate"
    ELSE "passthrough"

p1_fetch(request) ==
    IF request.method # "GET" THEN "passthrough"
    ELSE IF ~SameOrigin(request) THEN "passthrough"
    ELSE IF StartsWithIcons(request.url) THEN "cacheFirst"
    ELSE IF StartsWithStatic(request.url) THEN "staleWhileRevalidate"
    ELSE IF request.mode = "navigate" THEN "networkFirst"
    ELSE "passthrough"

\* mutant: the listener does not test isApiRequest
p2_fetch_noApiTest(request) ==
    IF ~SameOrigin(request) THEN "passthrough"
    ELSE IF request.mode = "navigate" THEN "navigate"
    ELSE "assets"

p2_fetch(request) ==
    IF ~SameOrigin(request) THEN "passthrough"
    ELSE IF isApiRequest(request.url) THEN "passthrough"
    ELSE IF request.mode = "navigate" THEN "navigate"
    ELSE "assets"

Route(v, request) ==
    CASE v = V3 -> v3_fetch(request)
      [] v = FA -> fa_fetch(request)
      [] v = V2 -> v2_fetch(request)
      [] v = P0 -> p0_fetch(request)
      [] v = P1 -> p1_fetch(request)
      [] v = P2 -> p2_fetch(request)

----------------------------------------------------------------------------
(* The strategies.  Each is cut at its await of fetch(): X_start is what   *)
(* runs before the fetch is issued, X what runs once the fetch has settled *)
(* with `fresh` (Failed: fetch rejected).  Both say which stores they      *)
(* open, which cache.put they issue, which Cache calls they make (ops) and *)
(* what the promise handed to respondWith resolves to.                     *)

StartOf(opens, cached, result, fetch, ops) ==
    [opens |-> opens, cached |-> cached, result |-> result, fetch |-> fetch,
     ops |-> ops]

EndOf(opens, newPuts, result, ops) ==
    [opens |-> opens, puts |-> newPuts, result |-> result, ops |-> ops]

\* cache.put(request, response): rejects with a TypeError for a non-GET request
Put(name, request, response) ==
    IF request.method = "GET"
    THEN {[store |-> name, url |-> request.url, entry |-> response]}
    ELSE {}

\* cache.put(url, response)
PutUrl(name, url, response) == {[store |-> name, url |-> url, entry |-> response]}

\* a strategy that touches no store before its fetch
NoStart == StartOf(<<>>, None, Pending, TRUE, {})

\* return cached || ...: a stored snapshot is returned without awaiting the fetch
ReturnEarly(cached) == IF cached # None THEN cached ELSE Pending

\* fetch(request).then(...).catch(() => null)
CatchNull(fresh) == IF fresh = Failed THEN Null ELSE fresh

\* what respondWith receives when the handler returns x
Returned(x) == IF x = None THEN Undefined ELSE x

(* ---- financeai-v3: sw.js 1-121 ---- *)

\* sw.js 43: fetch(event.request).catch(() => caches.match(event.request))
v3_crossOrigin(request, fresh) ==
    IF fresh # Failed THEN EndOf(<<>>, {}, fresh, {})
    ELSE EndOf(<<>>, {}, Returned(caches_match(request)), {"match"})

\* sw.js 69-94
v3_networkFirstHtml(request, fresh) ==
    IF fresh # Failed
    THEN EndOf(<<CACHE_NAME>>, Put(CACHE_NAME, request, fresh), fresh, {"open", "put"})
    ELSE LET cached == caches_match(request)
             fallback == caches_match_url(Root)
         IN EndOf(<<>>, {},
                  IF cached # None THEN cached
                  ELSE IF fallback # None THEN fallback
                  ELSE Response("Offline", 503),
                  {"match"})

\* sw.js 96-107
v3_networkFirst(request, fresh) ==
    IF fresh # Failed
    THEN EndOf(<<CACHE_NAME>>, Put(CACHE_NAME, request, fresh), fresh, {"open", "put"})
    ELSE LET cached == caches_match(request)
         IN EndOf(<<>>, {},
                  IF cached # None THEN cached ELSE Response("", 504),
                  {"match"})

\* sw.js 109-121
v3_staleWhileRevalidate_start(request) ==
    LET cached == caches_match(request)
    IN StartOf(<<>>, cached, ReturnEarly(cached), TRUE, {"match"})

v3_staleWhileRevalidate(request, cached, fresh) ==
    LET fetchPromise == CatchNull(fresh)
        result == Or(cached, Or(fetchPromise, Response("", 504)))
    IN IF fresh # Failed
       THEN EndOf(<<CACHE_NAME>>, Put(CACHE_NAME, request, fresh), result, {"open", "put"})
       ELSE EndOf(<<>>, {}, result, {})

(* ---- fa-v1.0.0: sw.js 123-247 ---- *)

\* sw.js 188-215
fa_networkFirst_start(request) ==
    StartOf(<<HTML_CACHE>>, None, Pending, TRUE, {"open"})

fa_networkFirst(request, response) ==
    IF response # Failed
    THEN IF Ok(response)
         THEN EndOf(<<>>,
                    Put(HTML_CACHE, request, response) \cup
                      (IF request.url = Root THEN PutUrl(HTML_CACHE, Root, response)
                       ELSE {}),
                    response, {"put"})
         ELSE EndOf(<<>>, {}, response, {})
    ELSE LET cached == cache_match(HTML_CACHE, request)
             cachedHome == cache_match_url(HTML_CACHE, Root)
             cachedStaticHome == cache_match_url(STATIC_CACHE, Root)
         IN IF cached # None THEN EndOf(<<>>, {}, cached, {"match"})
            ELSE IF cachedHome # None THEN EndOf(<<>>, {}, cachedHome, {"match"})
            ELSE EndOf(<<STATIC_CACHE>>, {},
                       IF cachedStaticHome # None THEN cachedStaticHome
                       ELSE Response("Offline", 503),
                       {"match", "open"})

\* mutant: return (await fetchPromise) || cached || ...
fa_staleWhileRevalidate_start_awaits(request) ==
    LET cached == cache_match(STATIC_CACHE, request)
    IN StartOf(<<STATIC_CACHE>>, cached, Pending, TRUE, {"open", "match"})

\* sw.js 217-228
fa_staleWhileRevalidate_start(request) ==
    LET cached == cache_match(STATIC_CACHE, request)
    IN StartOf(<<STATIC_CACHE>>, cached, ReturnEarly(cached), TRUE, {"open", "match"})

fa_staleWhileRevalidate(request, cached, response) ==
    LET fetchPromise == CatchNull(response)
        result == Or(cached, Or(fetchPromise, Response("", 504)))
    IN IF Ok(response)
       THEN EndOf(<<>>, Put(STATIC_CACHE, request, response), result, {"put"})
       ELSE EndOf(<<>>, {}, result, {})

(* ---- financeai-v2: sw.js 249-341 ---- *)

\* sw.js 288
v2_crossOrigin(request, fresh) ==
    IF fresh # Failed THEN EndOf(<<>>, {}, fresh, {})
    ELSE EndOf(<<>>, {}, Returned(caches_match(request)), {"match"})

\* sw.js 310-327
v2_networkFirst(request, fresh) ==
    IF fresh # Failed
    THEN EndOf(<<CACHE_NAME>>, Put(CACHE_NAME, request, fresh), fresh, {"open", "put"})
    ELSE LET cached == caches_match(request)
             fallback == caches_match_url(Root)
         IN EndOf(<<>>, {},
                  IF cached # None THEN cached
                  ELSE IF request.mode = "navigate" /\ fallback # None THEN fallback
                  ELSE Rejected,
                  {"match"})

\* sw.js 329-341
v2_staleWhileRevalidate_start(request) ==
    LET cached == caches_match(request)
    IN StartOf(<<>>, cached, ReturnEarly(cached), TRUE, {"match"})

v2_staleWhileRevalidate(request, cached, fresh) ==
    LET fetchPromise == CatchNull(fresh)
        result == Or(cached, Or(fetchPromise, Response("", 504)))
    IN IF fresh # Failed
       THEN EndOf(<<CACHE_NAME>>, Put(CACHE_NAME, request, fresh), result, {"open", "put"})
       ELSE EndOf(<<>>, {}, result, {})

(* ---- v2.0.1: part_000 ---- *)

\* mutant: the origin is fetched even when a snapshot was found
p0_cacheFirst_start_refetch(request) ==
    LET cached == cache_match(RUNTIME_CACHE, request)
    IN StartOf(<<RUNTIME_CACHE>>, cached, ReturnEarly(cached), TRUE,
               {"open", "match"})

\* part_000 88-96
p0_cacheFirst_start(request) ==
    LET cached == cache_match(RUNTIME_CACHE, request)
    IN StartOf(<<RUNTIME_CACHE>>, cached, ReturnEarly(cached), cached = None,
               {"open", "match"})

p0_cacheFirst(request, fresh) ==
    IF fresh = Failed THEN EndOf(<<>>, {}, Rejected, {})
    ELSE IF Ok(fresh)
    THEN EndOf(<<>>, Put(RUNTIME_CACHE, request, fresh), fresh, {"put"})
    ELSE EndOf(<<>>, {}, fresh, {})

\* part_000 98-108
p0_staleWhileRevalidate_start(request) ==
    LET cached == cache_match(STATIC_CACHE, request)
    IN StartOf(<<STATIC_CACHE>>, cached, ReturnEarly(cached), TRUE, {"open", "match"})

\* return cached || fetchPromise || new Response("", { status: 504 }): the
\* promise itself is truthy, so the function resolves to what it resolves to
p0_staleWhileRevalidate(request, cached, response) ==
    LET fetchPromise == CatchNull(response)
        result == Or(cached, fetchPromise)
    IN IF Ok(response)
       THEN EndOf(<<>>, Put(STATIC_CACHE, request, response), result, {"put"})
       ELSE EndOf(<<>>, {}, result, {})

\* part_000 110-124
p0_networkFirst_start(request) ==
    StartOf(<<RUNTIME_CACHE>>, None, Pending, TRUE, {"open"})

p0_networkFirst(request, fresh) ==
    IF fresh # Failed
    THEN IF Ok(fresh)
         THEN EndOf(<<>>, Put(RUNTIME_CACHE, request, fresh), fresh, {"put"})
         ELSE EndOf(<<>>, {}, fresh, {})
    ELSE LET cachedRoot == Or(caches_match_url(Root), caches_match(request))
         IN EndOf(<<>>, {}, Or(cachedRoot, Response("Offline", 503)), {"match"})

(* ---- v1.0.0: part_001 ---- *)

\* part_001 72-80, called with RUNTIME_CACHE
p1_cacheFirst_start(request) ==
    LET cached == cache_match(RUNTIME_CACHE, request)
    IN StartOf(<<RUNTIME_CACHE>>, cached, ReturnEarly(cached), cached = None,
               {"open", "match"})

p1_cacheFirst(request, fresh) ==
    IF fresh = Failed THEN EndOf(<<>>, {}, Rejected, {})
    ELSE IF Ok(fresh)
    THEN EndOf(<<>>, Put(RUNTIME_CACHE, request, fresh), fresh, {"put"})
    ELSE EndOf(<<>>, {}, fresh, {})

\* part_001 82-94, called with STATIC_CACHE
p1_staleWhileRevalidate_start(request) ==
    LET cached == cache_match(STATIC_CACHE, request)
    IN StartOf(<<STATIC_CACHE>>, cached, ReturnEarly(cached), TRUE, {"open", "match"})

\* mutant: the refresh is written to the other store
p1_staleWhileRevalidate_otherStore(request, cached, fresh) ==
    LET fetchPromise == CatchNull(fresh)
        result == Or(cached, Or(fetchPromise, Response("", 504)))
    IN IF Ok(fresh)
       THEN EndOf(<<RUNTIME_CACHE>>, Put(RUNTIME_CACHE, request, fresh), result, {"put"})
       ELSE EndOf(<<>>, {}, result, {})

p1_staleWhileRevalidate(request, cached, fresh) ==
    LET fetchPromise == CatchNull(fresh)
        result == Or(cached, Or(fetchPromise, Response("", 504)))
    IN IF Ok(fresh)
       THEN EndOf(<<>>, Put(STATIC_CACHE, request, fresh), result, {"put"})
       ELSE EndOf(<<>>, {}, result, {})

\* part_001 96-106, called with RUNTIME_CACHE
p1_networkFirst_start(request) ==
    StartOf(<<RUNTIME_CACHE>>, None, Pending, TRUE, {"open"})

p1_networkFirst(request, fresh) ==
    IF fresh # Failed
    THEN IF Ok(fresh)
         THEN EndOf(<<>>, Put(RUNTIME_CACHE, request, fresh), fresh, {"put"})
         ELSE EndOf(<<>>, {}, fresh, {})
    ELSE LET cached == cache_match(RUNTIME_CACHE, request)
         IN EndOf(<<>>, {}, Or(cached, Response("Offline", 503)), {"match"})

(* ---- finance-ai-v1.0.0: part_002 ---- *)

\* part_002 68-80: the navigate branch of the fetch listener
p2_navigate(request, fresh) ==
    IF fresh # Failed
    THEN EndOf(<<CACHE_NAME>>, Put(CACHE_NAME, request, fresh), fresh, {"open", "put"})
    ELSE EndOf(<<CACHE_NAME>>, {},
               Returned(Or(cache_match(CACHE_NAME, request),
                           cache_match_url(CACHE_NAME, OfflineHtml))),
               {"open", "match"})

\* part_002 84-103: the asset branch of the fetch listener
p2_assets_start(request) ==
    LET cached == cache_match(CACHE_NAME, request)
    IN StartOf(<<CACHE_NAME>>, cached, ReturnEarly(cached), cached = None,
               {"open", "match"})

p2_assets(request, fresh) ==
    IF fresh # Failed
    THEN IF request.method = "GET" /\ Ok(fresh)
         THEN EndOf(<<>>, Put(CACHE_NAME, request, fresh), fresh, {"put"})
         ELSE EndOf(<<>>, {}, fresh, {})
    ELSE IF request.html
         THEN EndOf(<<>>, {},
                    Or(cache_match_url(CACHE_NAME, OfflineHtml), ResponseError),
                    {"match"})
         ELSE EndOf(<<>>, {}, ResponseError, {})

(* ---- dispatch ---- *)

\* the part of the strategy that runs before its fetch is issued
Start(v, route, request) ==
    CASE route = "staleWhileRevalidate" /\ v = V3 -> v3_staleWhileRevalidate_start(request)
      [] route = "staleWhileRevalidate" /\ v = FA -> fa_staleWhileRevalidate_start(request)
      [] route = "staleWhileRevalidate" /\ v = V2 -> v2_staleWhileRevalidate_start(request)
      [] route = "staleWhileRevalidate" /\ v = P0 -> p0_staleWhileRevalidate_start(request)
      [] route = "staleWhileRevalidate" /\ v = P1 -> p1_staleWhileRevalidate_start(request)
      [] route = "cacheFirst" /\ v = P0 -> p0_cacheFirst_start(request)
      [] route = "cacheFirst" /\ v = P1 -> p1_cacheFirst_start(request)
      [] route = "assets" -> p2_assets_start(request)
      [] route = "networkFirst" /\ v = FA -> fa_networkFirst_start(request)
      [] route = "networkFirst" /\ v = P0 -> p0_networkFirst_start(request)
      [] route = "networkFirst" /\ v = P1 -> p1_networkFirst_start(request)
      [] OTHER -> NoStart

\* the part of the strategy that runs once its fetch has settled
Settle(v, route, request, cached, fresh) ==
    CASE route = "crossOrigin" /\ v = V3 -> v3_crossOrigin(request, fresh)
      [] route = "crossOrigin" /\ v = V2 -> v2_crossOrigin(request, fresh)
      [] route = "networkFirstHtml" -> v3_networkFirstHtml(request, fresh)
      [] route = "networkFirst" /\ v = V3 -> v3_networkFirst(request, fresh)
      [] route = "networkFirst" /\ v = FA -> fa_networkFirst(request, fresh)
      [] route = "networkFirst" /\ v = V2 -> v2_networkFirst(request, fresh)
      [] route = "networkFirst" /\ v = P0 -> p0_networkFirst(request, fresh)
      [] route = "networkFirst" /\ v = P1 -> p1_networkFirst(request, fresh)
      [] route = "staleWhileRevalidate" /\ v = V3 -> v3_staleWhileRevalidate(request, cached, fresh)
      [] route = "staleWhileRevalidate" /\ v = FA -> fa_staleWhileRevalidate(request, cached, fresh)
      [] route = "staleWhileRevalidate" /\ v = V2 -> v2_staleWhileRevalidate(request, cached, fresh)
      [] route = "staleWhileRevalidate" /\ v = P0 -> p0_staleWhileRevalidate(request, cached, fresh)
      [] route = "staleWhileRevalidate" /\ v = P1 -> p1_staleWhileRevalidate(request, cached, fresh)
      [] route = "cacheFirst" /\ v = P0 -> p0_cacheFirst(request, fresh)
      [] route = "cacheFirst" /\ v = P1 -> p1_cacheFirst(request, fresh)
      [] route = "navigate" -> p2_navigate(request, fresh)
      [] route = "assets" -> p2_assets(request, fresh)

----------------------------------------------------------------------------
(* Fetch events.                                                           *)

\* a fetch event arrives: the listener runs up to the await of its fetch
FetchEvent(request) ==
    /\ phase = "activated"
    /\ Len(reqs) < MaxRequests
    /\ LET route == Route(variant, request)
           s == Start(variant, route, request)
       IN IF route = "passthrough"
          THEN /\ reqs' = Append(reqs, [req |-> request, route |-> route,
                                        cached |-> None, fetch |-> "none",
                                        fresh |-> Pending, result |-> Passthrough,
                                        ops |-> {}])
               /\ cacheKeys' = cacheKeys
          ELSE /\ reqs' = Append(reqs, [req |-> request, route |-> route,
                                        cached |-> s.cached,
                                        fetch |-> IF s.fetch THEN "pending" ELSE "none",
                                        fresh |-> Pending, result |-> s.result,
                                        ops |-> s.ops])
               /\ cacheKeys' = OpenAll(cacheKeys, s.opens)
    /\ UNCHANGED <<prev, newer, variant, phase, skipWaiting, claimed, store, precache, toDelete,
                   originVer, puts>>

\* the origin fetch of request i settles and the rest of its strategy runs
FetchSettle(i, o) ==
    /\ i \in 1..Len(reqs)
    /\ reqs[i].fetch = "pending"
    /\ o = "new" => originVer < MaxVer
    /\ originVer' = VerAfter(o)
    /\ LET r == reqs[i]
           fresh == FetchResult(o)
           e == Settle(variant, r.route, r.req, r.cached, fresh)
       IN /\ reqs' = [reqs EXCEPT ![i] =
                        [r EXCEPT !.fetch = "done",
                                  !.fresh = fresh,
                                  !.result = IF r.result = Pending THEN e.result
                                             ELSE r.result,
                                  !.ops = r.ops \cup e.ops]]
          /\ cacheKeys' = OpenAll(cacheKeys, e.opens)
          /\ puts' = puts \cup {[by |-> i, store |-> p.store, url |-> p.url,
                                 entry |-> p.entry] : p \in e.puts}
    /\ UNCHANGED <<prev, newer, variant, phase, skipWaiting, claimed, store, precache, toDelete>>

\* a cache.put that was issued completes: the entry is overwritten
PutCommit(p) ==
    /\ p \in puts
    /\ puts' = puts \ {p}
    /\ store' = IF Exists(p.store) THEN [store EXCEPT ![p.store][p.url] = p.entry]
                ELSE store
    /\ UNCHANGED <<prev, newer, variant, phase, skipWaiting, claimed, cacheKeys, precache,
                   toDelete, originVer, reqs>>

----------------------------------------------------------------------------
(* Initial state: a freshly parsed worker of any variant, and any set of   *)
(* stores left by earlier generations, each holding a snapshot of "/".     *)

StaleSeq(S) ==
    LET RECURSIVE Go(_)
        Go(i) == IF i = 0 THEN <<>>
                 ELSE IF StaleNames[i] \in S THEN Append(Go(i - 1), StaleNames[i])
                 ELSE Go(i - 1)
    IN Go(MaxOldGen)

Init ==
    /\ variant \in Variants
    /\ phase = "parsed"
    /\ skipWaiting = FALSE
    /\ claimed = FALSE
    /\ \E S \in SUBSET StaleStores :
          /\ cacheKeys = StaleSeq(S)
          /\ store = [n \in StoreNames |->
                        IF n \in S THEN [EmptyStore EXCEPT ![Root] = StaleEntry]
                        ELSE EmptyStore]
    /\ precache = [u \in Urls |-> None]
    /\ toDelete = {}
    /\ originVer = 1
    /\ reqs = <<>>
    /\ puts = {}
    /\ prev = NoPrev
    /\ newer = "none"

Next ==
    \/ InstallStart
    \/ \E u \in Urls, o \in InstallOutcomes : PrecacheSettle(u, o)
    \/ InstallDone
    \/ Message
    \/ ActivateStart
    \/ \E k \in StoreNames : ActivateDelete(k)
    \/ ActivateDone
    \/ \E request \in RequestsOf(variant) : FetchEvent(request)
    \/ \E i \in 1..MaxRequests, o \in Outcomes : FetchSettle(i, o)
    \/ \E p \in puts : PutCommit(p)

Spec == Init /\ [][Next]_vars

----------------------------------------------------------------------------
(* The generation is installed again: the browser found the script changed *)
(* but its generation tag is the one already installed, so the install     *)
(* listener runs once more over the stores the earlier run left.           *)

Reinstall ==
    /\ phase \in {"installed", "redundant"}
    /\ prev.n + 1 < MaxInstalls
    /\ prev' = [n |-> prev.n + 1, got |-> precache, keys |-> cacheKeys,
                store |-> store]
    /\ phase' = "parsed"
    /\ skipWaiting' = FALSE
    /\ claimed' = FALSE
    /\ precache' = [u \in Urls |-> None]
    /\ UNCHANGED <<newer, variant, cacheKeys, store, toDelete, originVer, reqs, puts>>

NextReinstall ==
    \/ InstallStart
    \/ \E u \in Urls, o \in InstallOutcomes : PrecacheSettle(u, o)
    \/ InstallDone
    \/ Message
    \/ Reinstall

SpecReinstall == Init /\ [][NextReinstall]_vars

----------------------------------------------------------------------------
(* The worker in service: the state Spec reaches by an install in which    *)
(* every core-set member was fetched and stored, followed by activation,   *)
(* no store of another generation being present.                           *)

InitServing ==
    /\ variant \in Variants
    /\ phase = "activated"
    /\ skipWaiting = TRUE
    /\ claimed = TRUE
    /\ cacheKeys = <<InstallStore(variant)>>
    /\ store = [n \in StoreNames |->
                  IF n = InstallStore(variant)
                  THEN [u \in Urls |-> IF u \in CoreSet(variant) THEN OriginOk(1)
                                       ELSE None]
                  ELSE EmptyStore]
    /\ precache = [u \in Urls |-> None]
    /\ toDelete = {}
    /\ originVer = 1
    /\ reqs = <<>>
    /\ puts = {}
    /\ prev = NoPrev
    /\ newer = "none"

----------------------------------------------------------------------------
(* The classifier alone: the fetch listener is handed one request of any   *)
(* method, url, mode and Accept header.                                    *)

AllRequests ==
    {Req(m, u, mode, html) : m \in {"GET", "POST"}, u \in Urls,
                             mode \in {"navigate", "cors"}, html \in BOOLEAN}

Classify(request) ==
    /\ reqs = <<>>
    /\ FetchEvent(request)

NextClassify == \E request \in AllRequests : Classify(request)

SpecClassify == InitServing /\ [][NextClassify]_vars

----------------------------------------------------------------------------
(* The worker in service with the storage unavailable: every call of       *)
(* CacheStorage and Cache (caches.open, caches.match, cache.match,         *)
(* cache.put) rejects.                                                     *)

\* The strategies that call the store before their fetch do so outside any
\* try block (sw.js 109-110, 189, 218, 330; part_000 89, 99, 111; part_001
\* 73, 83, 97; part_002 85): the rejection is the handler's, no fetch is
\* issued.
StoreDownStart(v, route, request) ==
    LET s == Start(v, route, request)
    IN IF s.ops # {} THEN StartOf(<<>>, None, Rejected, FALSE, s.ops) ELSE s

\* The strategies that fetch first: a path without a Cache call is as it
\* was (sw.js 43, fetch resolved); on the others the first Cache call
\* rejects, inside the try block (sw.js 75, 99, 313; part_002 72) or inside
\* the catch block, and the Cache call of the catch block (sw.js 43, 81,
\* 103, 317; part_002 76) rejects as well: the handler's promise rejects.
StoreDownSettle(v, route, request, cached, fresh) ==
    LET e == Settle(v, route, request, cached, fresh)
    IN IF e.ops = {} THEN EndOf(<<>>, {}, e.result, {})
       ELSE EndOf(<<>>, {}, Rejected, e.ops)

FetchEventDown(request) ==
    /\ phase = "activated"
    /\ Len(reqs) < MaxRequests
    /\ LET route == Route(variant, request)
           s == StoreDownStart(variant, route, request)
       IN IF route = "passthrough"
          THEN reqs' = Append(reqs, [req |-> request, route |-> route,
                                     cached |-> None, fetch |-> "none",
                                     fresh |-> Pending, result |-> Passthrough,
                                     ops |-> {}])
          ELSE reqs' = Append(reqs, [req |-> request, route |-> route,
                                     cached |-> s.cached,
                                     fetch |-> IF s.fetch THEN "pending" ELSE "none",
                                     fresh |-> Pending, result |-> s.result,
                                     ops |-> s.ops])
    /\ UNCHANGED <<prev, newer, variant, phase, skipWaiting, claimed, cacheKeys,
                   store, precache, toDelete, originVer, puts>>

FetchSettleDown(i, o) ==
    /\ i \in 1..Len(reqs)
    /\ reqs[i].fetch = "pending"
    /\ o = "new" => originVer < MaxVer
    /\ originVer' = VerAfter(o)
    /\ LET r == reqs[i]
           fresh == FetchResult(o)
           e == StoreDownSettle(variant, r.route, r.req, r.cached, fresh)
       IN reqs' = [reqs EXCEPT ![i] =
                     [r EXCEPT !.fetch = "done",
                               !.fresh = fresh,
                               !.result = IF r.result = Pending THEN e.result
                                          ELSE r.result,
                               !.ops = r.ops \cup e.ops]]
    /\ UNCHANGED <<prev, newer, variant, phase, skipWaiting, claimed, cacheKeys,
                   store, precache, toDelete, puts>>

NextStoreDown ==
    \/ \E request \in Requests : FetchEventDown(request)
    \/ \E i \in 1..MaxRequests, o \in Outcomes : FetchSettleDown(i, o)

SpecStoreDown == InitServing /\ [][NextStoreDown]_vars

----------------------------------------------------------------------------
(* Supersession.  While the worker serves, the next deployment of the same *)
(* script, with its own generation tag, is installed and then activated:   *)
(* its install listener fills its own store, its activate listener deletes *)
(* every store that is not its own.  The superseded worker gets no new     *)
(* fetch events, but the events it is handling run to their end.           *)

\* a snapshot the newer generation stored at its install
NextEntry == Val("origin", 200, "next")

\* install listener of the newer generation: caches.open + addAll
NewerInstall ==
    /\ phase = "activated"
    /\ newer = "none"
    /\ newer' = "installed"
    /\ cacheKeys' = OpenAll(cacheKeys, <<NextStore>>)
    /\ store' = [store EXCEPT ![NextStore] =
                    [u \in Urls |-> IF u \in CoreSet(variant) THEN NextEntry
                                    ELSE None]]
    /\ UNCHANGED <<prev, variant, phase, skipWaiting, claimed, precache, toDelete,
                   originVer, reqs, puts>>

\* activate listener of the newer generation: every store but its own is
\* deleted, and it takes over
NewerActivate ==
    /\ newer = "installed"
    /\ newer' = "active"
    /\ phase' = "redundant"
    /\ cacheKeys' = SelectSeq(cacheKeys, LAMBDA k : k = NextStore)
    /\ store' = [n \in StoreNames |-> IF n = NextStore THEN store[n] ELSE EmptyStore]
    /\ UNCHANGED <<prev, variant, skipWaiting, claimed, precache, toDelete,
                   originVer, reqs, puts>>

NextRace ==
    \/ Next
    \/ NewerInstall
    \/ NewerActivate

SpecRace == Init /\ [][NextRace]_vars

----------------------------------------------------------------------------
(* The claims.                                                             *)

\* the store names a variant declares for its own generation
GenerationStores(v) ==
    CASE v \in {V3, V2, P2} -> {CACHE_NAME}
      [] v = FA -> {STATIC_CACHE, HTML_CACHE}
      [] v \in {P0, P1} -> {STATIC_CACHE, RUNTIME_CACHE}

IsSWR(i) == reqs[i].route = "staleWhileRevalidate"
IsOriginFirst(i) == reqs[i].route \in {"networkFirst", "networkFirstHtml"}
IsStoreFirst(i) == reqs[i].route \in {"cacheFirst", "assets"}

\* in this step the origin fetch of request i is rejected
FetchFails(i) ==
    /\ reqs[i].fetch = "pending"
    /\ reqs'[i].fetch = "done"
    /\ reqs'[i].fresh = Failed

\* C1: once the cleanup of the activate handler has completed, every store
\* that exists is named for the current generation; all others are deleted.
C1_GenerationCleanup ==
    (phase = "activated" \/ (phase = "activating" /\ toDelete = {}))
        => \A i \in 1..Len(cacheKeys) : cacheKeys[i] \in GenerationStores(variant)

C1_Witness ==
    /\ phase = "activated"
    /\ Len(cacheKeys) >= 1
    /\ \A i \in 1..Len(cacheKeys) : cacheKeys[i] \in GenerationStores(variant)

\* C2 (as claimed): when the fetch of an origin-first request fails, the
\* response is the stored entry of the exact request if there is one, else
\* the stored entry of "/" if there is one, else a synthesized non-empty
\* offline response.
C2_FallbackOrder ==
    [][\A i \in 1..Len(reqs) :
          (IsOriginFirst(i) /\ FetchFails(i)) =>
              LET exact == caches_match(reqs[i].req)
                  root == caches_match_url(Root)
                  res == reqs'[i].result
              IN IF exact # None THEN res = exact
                 ELSE IF root # None THEN res = root
                 ELSE res.kind = "synth" /\ res.body # ""]_vars

\* C3 (as claimed): whenever the origin fetch of an intercepted request has
\* failed, the promise handed to respondWith has resolved to a Response.
C3_NeverRaises ==
    \A i \in 1..Len(reqs) :
        (reqs[i].route # "passthrough" /\ reqs[i].fresh = Failed)
            => IsResponse(reqs[i].result)

\* C4 (as claimed): every entry of every store is a snapshot of a response
\* with a 2xx status.
C4_OnlyOkPersisted ==
    \A n \in StoreNames, u \in Urls : store[n][u] # None => Ok(store[n][u])

\* the requests C5 is about
IsApi(v, request) == v = P2 /\ isApiRequest(request.url)
Bypassed(v, request) ==
    request.method # "GET" \/ ~SameOrigin(request) \/ IsApi(v, request)

C6_PrecacheIndependence ==
    phase \in {"installed", "redundant"} =>
        /\ phase = "installed"
        /\ \A u \in CoreSet(variant) :
              Ok(precache[u]) => store[InstallStore(variant)][u] = precache[u]

\* C7: a concurrent-refresh request that found a stored snapshot has been
\* answered with that snapshot, whether its origin fetch is still pending,
\* has resolved or has failed.
C7_StaleServedAtOnce ==
    \A i \in 1..Len(reqs) :
        (IsSWR(i) /\ reqs[i].cached # None) => reqs[i].result = reqs[i].cached

C7_Witness ==
    \E i \in 1..Len(reqs) :
        /\ IsSWR(i)
        /\ reqs[i].cached # None
        /\ reqs[i].fetch = "pending"
        /\ reqs[i].result = reqs[i].cached

\* the concurrent-refresh requests for url whose fetch has resolved with a
\* 2xx response
Refreshed(url) ==
    {j \in 1..Len(reqs) : /\ IsSWR(j)
                          /\ reqs[j].req.url = url
                          /\ reqs[j].fetch = "done"
                          /\ Ok(reqs[j].fresh)}

\* C8 (as claimed): once the fetch of a concurrent-refresh request has
\* resolved successfully, a request for that key that starts afterwards
\* returns the content that fetch brought.
C8_FreshAfterFetch ==
    [][Len(reqs') = Len(reqs) + 1 =>
          LET new == reqs'[Len(reqs')]
              done == Refreshed(new.req.url)
          IN (new.route = "staleWhileRevalidate" /\ done # {})
                => \A j \in done :
                      (\A k \in done : reqs[k].fresh = reqs[j].fresh)
                         => new.result = reqs[j].fresh]_vars

\* C8 (amended): a concurrent-refresh request whose fetch resolves with a
\* 2xx response issues a write of that response under its key, and once
\* that write has completed a request for the key that starts next is
\* answered with the content the refresh fetched.
C8_FreshAfterWrite ==
    [][/\ \A i \in 1..Len(reqs) :
             (/\ IsSWR(i)
              /\ reqs[i].req.method = "GET"
              /\ reqs[i].fetch = "pending"
              /\ reqs'[i].fetch = "done"
              /\ Ok(reqs'[i].fresh))
             => \E p \in puts' \ puts :
                   p.by = i /\ p.url = reqs[i].req.url /\ p.entry = reqs'[i].fresh
       /\ \A p \in puts \ puts' :
             IsSWR(p.by) =>
                 \A r \in Requests :
                     (/\ r.method = "GET"
                      /\ r.url = p.url
                      /\ Route(variant, r) = "staleWhileRevalidate")
                     => (Start(variant, "staleWhileRevalidate", r).result)' = p.entry]_vars

C8_Witness ==
    \E j \in 1..Len(reqs), i \in 1..Len(reqs) :
        /\ j < i
        /\ IsSWR(j) /\ IsSWR(i)
        /\ reqs[j].req.url = reqs[i].req.url
        /\ Ok(reqs[j].fresh)
        /\ reqs[j].cached # None
        /\ reqs[j].cached # reqs[j].fresh
        /\ reqs[i].cached = reqs[j].fresh
        /\ reqs[i].result = reqs[j].fresh

\* C9 (as claimed): a concurrent-refresh request that found no stored
\* snapshot is answered with what its fetch resolved to, and with a
\* synthesized 504 response when the fetch failed.
C9_NoSnapshot ==
    \A i \in 1..Len(reqs) :
        (IsSWR(i) /\ reqs[i].cached = None /\ reqs[i].fetch = "done") =>
            IF reqs[i].fresh = Failed
            THEN reqs[i].result = Response("", 504)
            ELSE reqs[i].result = reqs[i].fresh

\* C10: a store-first request that found a snapshot for its key has been
\* answered with exactly that snapshot, has issued no origin fetch and has
\* issued no write to any store.
C10_StoreFirstHit ==
    \A i \in 1..Len(reqs) :
        (IsStoreFirst(i) /\ reqs[i].cached # None) =>
            /\ reqs[i].result = reqs[i].cached
            /\ reqs[i].fetch = "none"
            /\ reqs[i].fresh = Pending
            /\ "put" \notin reqs[i].ops
            /\ \A p \in puts : p.by # i

C10_Witness ==
    \E i \in 1..Len(reqs) :
        /\ reqs[i].route = "cacheFirst"
        /\ reqs[i].cached # None
        /\ reqs[i].result = reqs[i].cached
        /\ reqs[i].fetch = "none"

\* C11 (as claimed): when the fetch of an intercepted navigation request
\* fails and no store holds an entry for the request's own url, the request
\* is answered with a response whose status is not 2xx.
C11_OfflineNon2xx ==
    [][\A i \in 1..Len(reqs) :
          (/\ reqs[i].req.mode = "navigate"
           /\ reqs[i].route # "passthrough"
           /\ FetchFails(i)
           /\ caches_match(reqs[i].req) = None)
          => /\ IsResponse(reqs'[i].result)
             /\ ~Ok(reqs'[i].result)]_vars

\* the routes that run an origin-first strategy
OriginFirstRoutes == {"networkFirst", "networkFirstHtml", "navigate"}

\* C12 (as claimed): every same-origin GET request whose mode is "navigate"
\* or whose Accept header names text/html is handed to an origin-first
\* strategy, whatever its path.
C12_NavigationPriority ==
    \A i \in 1..Len(reqs) :
        (/\ reqs[i].req.method = "GET"
         /\ SameOrigin(reqs[i].req)
         /\ (reqs[i].req.mode = "navigate" \/ reqs[i].req.html))
        => reqs[i].route \in OriginFirstRoutes

\* the origin answers the fetch of u in this install run as it did in the
\* previous one (a fetch that was aborted, still pending, got no answer)
SameAnswer(u) ==
    precache[u] = prev.got[u] \/ precache[u] = Pending \/ prev.got[u] = Pending

\* C13: when the install sequence has run again for the same generation and
\* the origin answered as it did in the previous run, the stores that exist
\* and every snapshot in them are exactly what the previous run left.
C13_InstallIdempotent ==
    (/\ prev.n >= 1
     /\ phase \in {"installed", "redundant"}
     /\ \A u \in Urls : SameAnswer(u))
    => /\ cacheKeys = prev.keys
       /\ store = prev.store

C13_Witness ==
    /\ prev.n >= 1
    /\ phase = "installed"
    /\ \A u \in Urls : precache[u] = prev.got[u]
    /\ \A u \in CoreSet(variant) : store[InstallStore(variant)][u] = precache[u]
    /\ store = prev.store

\* C14 (as claimed): in no state has clients.claim() been called while a
\* store of another generation still exists or still awaits its deletion.
C14_ClaimAfterCleanup ==
    claimed =>
        /\ toDelete = {}
        /\ \A i \in 1..Len(cacheKeys) : cacheKeys[i] \in GenerationStores(variant)

\* C15 (as claimed): with the storage unavailable, no intercepted request
\* fails while the origin is reachable, and a request whose origin fetch was
\* answered is answered with the origin's response.
C15_OriginPassThrough ==
    \A i \in 1..Len(reqs) :
        (reqs[i].route # "passthrough" /\ reqs[i].fresh # Failed)
        => /\ reqs[i].result # Rejected
           /\ reqs[i].fetch = "done" => reqs[i].result = reqs[i].fresh

\* C16 (as claimed): once the newer generation's cleanup has run and every
\* request the superseded worker was handling has completed, its writes
\* included, no store named for the superseded generation exists.
C16_NoStoreRecreated ==
    (/\ newer = "active"
     /\ \A i \in 1..Len(reqs) : reqs[i].fetch # "pending"
     /\ puts = {})
    => \A i \in 1..Len(cacheKeys) : cacheKeys[i] \notin GenerationStores(variant)

IsDefaultRequest(v, request) ==
    /\ request.method = "GET"
    /\ SameOrigin(request)
    /\ request.mode # "navigate"
    /\ ~request.html
    /\ ~IsApi(v, request)
    /\ ~isStaticAsset(request.url)

\* C18 (as claimed): a request of the default class is handed to an
\* origin-first strategy; when its fetch resolves with a 2xx response that
\* response is returned and written under the request's key, and when its
\* fetch fails a stored copy of the request, if there is one, is returned.
C18_DefaultOriginFirst ==
    [][/\ Len(reqs') = Len(reqs) + 1 =>
             LET new == reqs'[Len(reqs')]
             IN IsDefaultRequest(variant, new.req) => new.route \in OriginFirstRoutes
       /\ \A i \in 1..Len(reqs) :
             (/\ IsDefaultRequest(variant, reqs[i].req)
              /\ reqs[i].fetch = "pending"
              /\ reqs'[i].fetch = "done")
             => IF Ok(reqs'[i].fresh)
                THEN /\ reqs'[i].result = reqs'[i].fresh
                     /\ \E p \in puts' \ puts :
                           /\ p.by = i
                           /\ p.url = reqs[i].req.url
                           /\ p.entry = reqs'[i].fresh
                ELSE (reqs'[i].fresh = Failed /\ caches_match(reqs[i].req) # None)
                        => reqs'[i].result = caches_match(reqs[i].req)]_vars

\* C19 (as claimed): no request is answered with a snapshot that another
\* generation stored, neither one left in an older generation's store nor
\* one the newer generation stored at its install.
C19_ReadsOwnGeneration ==
    \A i \in 1..Len(reqs) : reqs[i].result \notin {StaleEntry, NextEntry}

\* C20 (as claimed): when every core-set member is in the store the install
\* filled, the first store-first (cacheFirst) request for a core-set icon is
\* answered with the snapshot of that store and issues no origin fetch.
C20_PrecachedIconHit ==
    [][Len(reqs') = Len(reqs) + 1 =>
          LET new == reqs'[Len(reqs')]
          IN (/\ new.route = "cacheFirst"
              /\ StartsWithIcons(new.req.url)
              /\ new.req.url \in CoreSet(variant)
              /\ \A u \in CoreSet(variant) : store[InstallStore(variant)][u] # None
              /\ \A j \in 1..Len(reqs) : reqs[j].req.url # new.req.url)
             => /\ new.fetch = "none"
                /\ new.result = store[InstallStore(variant)][new.req.url]]_vars

\* C21: in financeai-v3, in every state after a successful install in which
\* no other generation has been activated, the store CACHE_NAME exists and
\* holds an entry for "/", and no request handled by networkFirstHtml has
\* been answered with the synthesized 503 "Offline" response.
C21_RootEntry ==
    (/\ variant = V3
     /\ phase \in {"installed", "activating", "activated"}
     /\ newer # "active")
    => /\ Exists(CACHE_NAME)
       /\ store[CACHE_NAME][Root] # None
       /\ \A i \in 1..Len(reqs) :
             reqs[i].route = "networkFirstHtml"
                => reqs[i].result # Response("Offline", 503)

C21_Witness ==
    /\ variant = V3
    /\ phase = "activated"
    /\ \E i \in 1..Len(reqs) :
          /\ reqs[i].route = "networkFirstHtml"
          /\ reqs[i].req.url = Page
          /\ reqs[i].fresh = Failed
          /\ store[CACHE_NAME][Page] = None
          /\ reqs[i].result = store[CACHE_NAME][Root]

====
